---- MODULE Spec2Model ----
(***************************************************************************)
(* DeliveryCalculator (Yandex.Maps 2.1 module) in its two source variants: *)
(*   "A" = src/DeliveryCalculatorClass.js   "B" = src/unnamed/part_000     *)
(* The calculator object, the map/placemark/panel sinks it writes to and   *)
(* the route requests in flight are the state; every handler (map click,   *)
(* setPoint, setRoute, clearRoute, dragend, the two provider callbacks) is *)
(* one atomic action, as the page's event loop runs them.                  *)
(***************************************************************************)
EXTENDS Integers, Sequences, FiniteSets, TLC

\* ------------------------------------------------------------------ bounds
NCoords == 2            \* distinct map positions 1..NCoords (0 is "no placemark")
MaxReqs == 2            \* route requests issued in one behaviour
MaxKm == 60             \* whole-kilometre inputs of the price function
MinSecs == 5            \* fmtSeconds inputs range over -MinSecs..MaxSecs
MaxSecs == 7325

\* --------------------------------------------------------------- constants
\* Variant A keeps money in hundredths (0.80 and 1 of the source), so that
\* fmtMoney's rounding to two decimals is exact; vr B in whole units.
DELIVERY_TARIF_A == 80
MINIMUM_COST_A == 100
DELIVERY_TARIF_B == 20
MINIMUM_COST_B == 500
avgKmh == 40

Variants == {"A", "B"}
Coords == 1..NCoords
NoPoint == 0

\* U+2014 and U+20BE of the source, in ASCII.
DASH == "--"
LARI == " L"
CANT_BUILD == "Can't build route"

\* balloonContent argument of setPoint: a string, or not a string (undefined).
NoContent == "<undefined>"
Contents == {"Shop. "}

\* ------------------------------------------------------------- JS values
Num(n) == [t |-> "num", v |-> n]
NaN == [t |-> "nan", v |-> 0]
Null == [t |-> "null", v |-> 0]
Str(s) == [t |-> "str", v |-> 0, s |-> s]
NumRes(n) == [t |-> "num", v |-> n, s |-> ""]
NullRes == [t |-> "null", v |-> 0, s |-> ""]

Max(a, b) == IF a >= b THEN a ELSE b

\* Math.round of num/den for num >= 0, den > 0: halves go up.
RoundDiv(num, den) == (2 * num + den) \div (2 * den)

\* ------------------------------------------------------------ formatting
Pad2(n) == IF n < 10 THEN "0" \o ToString(n) ELSE ToString(n)

\* v is a number of hundredths; toFixed(2) of it.
fmtMoney(v) ==
    IF v.t # "num" THEN DASH
    ELSE ToString(v.v \div 100) \o "." \o Pad2(v.v % 100)

\* Mutation of fmtSeconds: the hours part is printed also when it is zero.
fmtSecondsWithZeroHours(sec) ==
    IF sec.t # "num" THEN NullRes
    ELSE LET s == Max(0, sec.v)
             h == s \div 3600
             m == (s % 3600) \div 60
         IN  Str(ToString(h) \o " h " \o ToString(m) \o " min")

fmtSeconds(sec) ==
    IF sec.t # "num" THEN NullRes
    ELSE LET s == Max(0, sec.v)
             h == s \div 3600
             m == (s % 3600) \div 60
         IN  Str((IF h > 0 THEN ToString(h) \o " h " ELSE "") \o ToString(m) \o " min")

\* ymaps.formatter.distance: the provider's rendering of a length in metres.
distanceText(lengthMeters) == ToString(lengthMeters) \o " m"

\* Mutation of priceForKm: no minimum.
priceForKmNoFloor(vr, kmRounded) ==
    IF vr = "A" THEN kmRounded * DELIVERY_TARIF_A ELSE kmRounded * DELIVERY_TARIF_B

priceForKm(vr, kmRounded) ==
    IF vr = "A"
    THEN Max(kmRounded * DELIVERY_TARIF_A, MINIMUM_COST_A)
    ELSE Max(kmRounded * DELIVERY_TARIF_B, MINIMUM_COST_B)

\* Mutation of kmRoundedOf: Math.floor in the place of Math.round.
kmFlooredOf(lengthMeters) == lengthMeters \div 1000

\* Math.round(lengthMeters / 1000)
kmRoundedOf(lengthMeters) == RoundDiv(lengthMeters, 1000)

\* The price as the vr prints it: fmtMoney(price) in A, the number in B.
priceText(vr, price) ==
    IF vr = "A" THEN fmtMoney(Num(price)) ELSE ToString(price)

\* ------------------------------------------------------ getDurationSeconds
\* A router: len, and its three duration sources.
\*   jams, time: t in absent (no such method) | throws | num | nan | nonnum
\*   dur (properties.get('duration')): t in absent | throws | none | value |
\*        valueNaN | duration | durationNaN | other
directTimes(router) ==
    IF router.jams.t = "throws" THEN Null
    ELSE IF router.jams.t = "num" /\ router.jams.v >= 0 THEN Num(router.jams.v)
    ELSE IF router.time.t = "throws" THEN Null
    ELSE IF router.time.t = "num" /\ router.time.v >= 0 THEN Num(router.time.v)
    ELSE Null

propertiesDuration(router) ==
    IF router.dur.t \in {"value", "duration"} THEN Num(router.dur.v)
    ELSE IF router.dur.t \in {"valueNaN", "durationNaN"} THEN NaN
    ELSE Null

getDurationSeconds(router, lengthMeters) ==
    IF directTimes(router) # Null THEN directTimes(router)
    ELSE IF propertiesDuration(router) # Null THEN propertiesDuration(router)
    ELSE Num(RoundDiv(lengthMeters * 3600, 1000 * avgKmh))

\* ----------------------------------------------------------------- updatePanel
\* The three text slots of the info panel after updatePanel.
updatePanel(vr, dText, seconds, price) ==
    [distance |-> IF dText = "" THEN DASH ELSE dText,
     time |-> IF seconds.t = "num" THEN fmtSeconds(seconds).s ELSE DASH,
     cost |-> priceText(vr, price) \o LARI]

\* The text both balloons get after the custom content.
message(vr, dText, price) ==
    "<span>Distance: " \o dText \o ".</span><br/>" \o
    "<span style=\"font-weight: bold; font-style: italic\">Cost of delivery: " \o
    priceText(vr, price) \o LARI \o "</span>"

\* ------------------------------------------------------------------- state
VARIABLES
    variant,        \* which source file runs
    startPoint,     \* this._startPoint: its coordinates, NoPoint when null
    finishPoint,    \* this._finishPoint
    startContent,   \* this._startPointBalloonContent
    finishContent,  \* this._finishPointBalloonContent
    route,          \* this._route: the request whose paths it is, 0 when null
    router,         \* this._router: the router object, NoRouter when null
    deferred,       \* this._deferred: index into reqs, 0 when null
    reqs,           \* every ymaps.route call so far, with its deferred
    mapPlacemarks,  \* placemarks in map.geoObjects: how many of each role
    mapRoutes,      \* route polylines in map.geoObjects
    startBody,      \* balloonContentBody of the start placemark
    finishBody,     \* balloonContentBody of the finish placemark
    finishOpen,     \* the finish placemark's balloon is open
    panel,          \* distanceVal / timeVal / costVal
    bounds,         \* the route the map was last fitted to, 0 when never
    threw,          \* the last handler ended by an exception
    last,           \* the last handler run
    clicks,         \* map clicks handled so far (2: two or more), while the map
                    \* click is the only user event so far; OtherEvents after that
    fnName, fnArg, fnRes    \* a direct call of a helper and its result

calcVars == <<startPoint, finishPoint, startContent, finishContent, route, router,
              deferred, reqs, mapPlacemarks, mapRoutes, startBody, finishBody,
              finishOpen, panel, bounds, threw>>
fnVars == <<fnName, fnArg, fnRes>>
vars == <<variant, calcVars, last, clicks, fnVars>>

OtherEvents == 0 - 1

\* Routers the provider answers with in the event model.
NoSrc == [t |-> "absent", v |-> 0]
Routers ==
    { [len |-> 12345, jams |-> Num(3661), time |-> NoSrc, dur |-> NoSrc],
      [len |-> 400, jams |-> NoSrc, time |-> NoSrc, dur |-> NoSrc],
      [len |-> 26500, jams |-> [t |-> "throws", v |-> 0], time |-> Num(60),
       dur |-> [t |-> "valueNaN", v |-> 0]] }
\* null in the place of a router
NoRouter == [len |-> 0, jams |-> NoSrc, time |-> NoSrc, dur |-> NoSrc]

\* SDK calls that may throw; a handler run has at most one of them throw.
NoFault == "none"
Faults == {"newStart", "newFinish", "addStart", "addFinish", "removeRoute",
           "styleRoute", "addRoute", "setStartBody", "setFinishBody", "openBalloon",
           "fitBounds"}

\* The calculator and its sinks as one record, for the handlers below.
Cur ==
    [variant |-> variant, startPoint |-> startPoint, finishPoint |-> finishPoint,
     startContent |-> startContent, finishContent |-> finishContent,
     route |-> route, router |-> router, deferred |-> deferred, reqs |-> reqs,
     mapPlacemarks |-> mapPlacemarks, mapRoutes |-> mapRoutes,
     startBody |-> startBody, finishBody |-> finishBody,
     finishOpen |-> finishOpen,
     panel |-> panel, bounds |-> bounds, threw |-> FALSE]

Apply(S) ==
    /\ startPoint' = S.startPoint /\ finishPoint' = S.finishPoint
    /\ startContent' = S.startContent /\ finishContent' = S.finishContent
    /\ route' = S.route /\ router' = S.router /\ deferred' = S.deferred
    /\ reqs' = S.reqs
    /\ mapPlacemarks' = S.mapPlacemarks /\ mapRoutes' = S.mapRoutes
    /\ startBody' = S.startBody /\ finishBody' = S.finishBody
    /\ finishOpen' = S.finishOpen /\ panel' = S.panel /\ bounds' = S.bounds
    /\ threw' = S.threw
    /\ UNCHANGED variant

\* new DeliveryCalculator(map)
DeliveryCalculator ==
    /\ startPoint = NoPoint /\ finishPoint = NoPoint
    /\ startContent = "" /\ finishContent = ""
    /\ route = 0 /\ router = NoRouter /\ deferred = 0
    /\ reqs = <<>>
    /\ mapPlacemarks = [start |-> 0, finish |-> 0] /\ mapRoutes = {}
    /\ startBody = "" /\ finishBody = ""
    /\ finishOpen = FALSE
    /\ panel = [distance |-> "", time |-> "", cost |-> ""]
    /\ bounds = 0
    /\ threw = FALSE

NoCall == /\ fnName = "none" /\ fnArg = Null /\ fnRes = NullRes

Init ==
    /\ variant \in Variants
    /\ DeliveryCalculator
    /\ last = "new"
    /\ clicks = 0
    /\ NoCall

\* ---------------------------------------------------------------- handlers
\* A handler is a function of the record S; once S.threw is set the rest of
\* the handler is skipped (the exception unwinds it).
Throw(S) == [S EXCEPT !.threw = TRUE]

\* Mutation of rejectPending: the previous deferred is left as it is.
rejectPendingSkipped(S) == S

\* deferred.reject('New request') of the request in the slot, when it is
\* pending. Neither callback of a rejected request reads what its closure
\* captured (start, finish, startBalloon, finishBalloon): it is dropped here.
rejectPending(S) ==
    IF S.deferred # 0 /\ S.reqs[S.deferred].d = "pending"
    THEN [S EXCEPT !.reqs[S.deferred] =
                      [start |-> NoPoint, finish |-> NoPoint,
                       startBalloon |-> "", finishBalloon |-> "",
                       d |-> "rejected", out |-> S.reqs[S.deferred].out]]
    ELSE S

newRequest(S) ==
    [start |-> S.startPoint, finish |-> S.finishPoint,
     startBalloon |-> S.startContent, finishBalloon |-> S.finishContent,
     d |-> "pending", out |-> "outstanding"]

\* _setupRoute up to and including the ymaps.route call
setupRoute(S) ==
    IF S.threw \/ S.startPoint = NoPoint \/ S.finishPoint = NoPoint THEN S
    ELSE LET R == rejectPending(S)
         IN  [R EXCEPT !.reqs = Append(@, newRequest(S)),
                       !.deferred = Len(R.reqs) + 1]

\* Mutation of placePoint: a placemark is created also when the role has one.
placePointAlwaysCreates(S, which, coords, f) ==
    IF which = "start"
    THEN [S EXCEPT !.startPoint = coords, !.mapPlacemarks.start = @ + 1]
    ELSE [S EXCEPT !.finishPoint = coords, !.mapPlacemarks.finish = @ + 1]

\* the placemark part of setPoint
placePoint(S, which, coords, f) ==
    LET isStart == which = "start"
        pm == IF isStart THEN S.startPoint ELSE S.finishPoint
    IN  IF pm = NoPoint
        THEN IF f = (IF isStart THEN "newStart" ELSE "newFinish") THEN Throw(S)
             ELSE IF f = (IF isStart THEN "addStart" ELSE "addFinish") THEN Throw(S)
             ELSE IF isStart
                  THEN [S EXCEPT !.startPoint = coords, !.mapPlacemarks.start = @ + 1]
                  ELSE [S EXCEPT !.finishPoint = coords, !.mapPlacemarks.finish = @ + 1]
        ELSE IF isStart THEN [S EXCEPT !.startPoint = coords]
             ELSE [S EXCEPT !.finishPoint = coords]

\* the balloonContent part of setPoint
storeContent(S, which, balloonContent) ==
    IF balloonContent = NoContent THEN S
    ELSE IF which = "start" THEN [S EXCEPT !.startContent = balloonContent]
         ELSE [S EXCEPT !.finishContent = balloonContent]

\* Mutation of setPoint: the route is not rebuilt (variant B's setPoint in A).
setPointNoAuto(S, which, coords, balloonContent, f) ==
    IF S.threw THEN S
    ELSE LET P == placePoint(S, which, coords, f)
         IN  IF P.threw THEN P ELSE storeContent(P, which, balloonContent)

setPoint(S, which, coords, balloonContent, f) ==
    IF S.threw THEN S
    ELSE LET P == placePoint(S, which, coords, f)
         IN  IF P.threw THEN P
             ELSE LET C == storeContent(P, which, balloonContent)
                  IN  IF S.variant = "A" THEN setupRoute(C) ELSE C

\* Mutation of setRoute: the trailing _setupRoute of variant B is missing.
setRouteNoBuild(S, start, finish, f) ==
    setPoint(setPoint(S, "start", start, NoContent, f), "finish", finish, NoContent, f)

setRoute(S, start, finish, f) ==
    LET T == setPoint(setPoint(S, "start", start, NoContent, f),
                      "finish", finish, NoContent, f)
    IN  IF S.variant = "A" THEN T ELSE setupRoute(T)

\* Mutation of onClick: variant B's trailing _setupRoute also in A.
onClickDoubled(S, pos, f) ==
    setupRoute(IF S.startPoint = NoPoint THEN setPoint(S, "start", pos, NoContent, f)
               ELSE setPoint(S, "finish", pos, NoContent, f))

onClick(S, pos, f) ==
    LET T == IF S.startPoint = NoPoint THEN setPoint(S, "start", pos, NoContent, f)
             ELSE setPoint(S, "finish", pos, NoContent, f)
    IN  IF S.variant = "A" THEN T ELSE setupRoute(T)

\* Mutation of removeRoute: the field is nulled, the polyline stays on the map.
removeRouteFieldOnly(S, f) ==
    IF S.route = 0 THEN S ELSE [S EXCEPT !.route = 0]

\* removal of the drawn route: inline in A's success callback, clearRoute in B
removeRoute(S, f) ==
    IF S.route = 0 THEN S
    ELSE [S EXCEPT !.mapRoutes = IF f = "removeRoute" THEN @ ELSE @ \ {S.route},
                   !.route = 0]

\* Mutation of clearRoute: the placemarks are taken off the map and forgotten too.
clearRouteAndMarkers(S, f) ==
    [removeRoute(S, f) EXCEPT !.router = NoRouter,
                              !.startPoint = NoPoint, !.finishPoint = NoPoint,
                              !.mapPlacemarks = [start |-> 0, finish |-> 0]]

clearRoute(S, f) == [removeRoute(S, f) EXCEPT !.router = NoRouter]

\* The callbacks of request i have run: what their closure captured is gone,
\* the deferred stays.
completed(S, i, outcome) ==
    [S EXCEPT !.reqs[i] = [start |-> NoPoint, finish |-> NoPoint,
                           startBalloon |-> "", finishBalloon |-> "",
                           d |-> S.reqs[i].d, out |-> outcome]]

\* what the success callback computes from the router
statsOf(vr, rt) ==
    LET lengthMeters == rt.len
        price == priceForKm(vr, kmRoundedOf(lengthMeters))
    IN  [distanceText |-> distanceText(lengthMeters),
         price |-> price,
         seconds |-> getDurationSeconds(rt, lengthMeters)]

\* Mutation of setBodies: the new text is appended to the body that is there.
setBodiesAppending(S, i, st, f) ==
    LET msg == message(S.variant, st.distanceText, st.price)
    IN  [S EXCEPT !.startBody = @ \o S.reqs[i].startBalloon \o msg,
                  !.finishBody = @ \o S.reqs[i].finishBalloon \o msg]

\* the two properties.set calls, in one try block
setBodies(S, i, st, f) ==
    LET msg == message(S.variant, st.distanceText, st.price)
    IN  IF f = "setStartBody" THEN S
        ELSE IF f = "setFinishBody"
             THEN [S EXCEPT !.startBody = S.reqs[i].startBalloon \o msg]
             ELSE [S EXCEPT !.startBody = S.reqs[i].startBalloon \o msg,
                            !.finishBody = S.reqs[i].finishBalloon \o msg]

\* the success callback from "remove previous route" on, for a live request
drawRoute(S, i, rt, f) ==
    LET st == statsOf(S.variant, rt)
        S1 == IF S.variant = "A" THEN removeRoute(S, f) ELSE clearRoute(S, f)
        S2 == [S1 EXCEPT !.router = rt, !.route = i]
        S3 == [S2 EXCEPT !.mapRoutes = @ \cup {i}]
        S4 == setBodies(S3, i, st, f)
        S5 == [S4 EXCEPT !.panel = updatePanel(S.variant, st.distanceText,
                                                st.seconds, st.price),
                         !.bounds = IF f = "fitBounds" THEN @ ELSE i,
                         !.finishOpen = IF f = "openBalloon" THEN @ ELSE TRUE]
        done == completed(S5, i, "ok")
    IN  IF f \in {"styleRoute", "addRoute"} THEN Throw(completed(S2, i, "ok"))
        ELSE [done EXCEPT !.reqs[i].d = "resolved"]

\* Mutation of routeSuccess: the rejection flag is not looked at.
routeSuccessUnguarded(S, i, rt, f) ==
    drawRoute(S, i, rt, f)

\* ymaps.route(...).then(function (router) { ... })
routeSuccess(S, i, rt, f) ==
    IF S.reqs[i].d = "rejected" THEN completed(S, i, "ok")
    ELSE drawRoute(S, i, rt, f)

\* Mutation of routeFailure: the failure also blanks the panel.
routeFailureBlanksPanel(S, i, f) ==
    LET S0 == completed(S, i, "failed")
    IN  IF f = "setFinishBody" THEN S0
        ELSE [S0 EXCEPT !.finishBody = CANT_BUILD,
                        !.finishOpen = IF f = "openBalloon" THEN @ ELSE TRUE,
                        !.panel = [distance |-> DASH, time |-> DASH, cost |-> DASH]]

\* ymaps.route(...).then(..., function () { ... })
routeFailure(S, i, f) ==
    LET S0 == completed(S, i, "failed")
    IN  IF f = "setFinishBody" THEN S0
        ELSE [S0 EXCEPT !.finishBody = CANT_BUILD,
                        !.finishOpen = IF f = "openBalloon" THEN @ ELSE TRUE]

\* ----------------------------------------------------------------- actions
Ran(op) == last' = op

NoHelper == UNCHANGED fnVars

\* map 'click' event
Click(pos, f) ==
    LET S == onClick(Cur, pos, f)
    IN  /\ fnName = "none"
        /\ Apply(S)
        /\ Ran("click")
        /\ clicks' = IF clicks \in {0, 1} THEN clicks + 1 ELSE clicks
        /\ NoHelper

\* calculator.setPoint(which, coords, balloonContent) called by the page
SetPoint(which, coords, balloonContent, f) ==
    LET S == setPoint(Cur, which, coords, balloonContent, f)
    IN  /\ fnName = "none"
        /\ Apply(S)
        /\ Ran("setPoint")
        /\ clicks' = OtherEvents
        /\ NoHelper

\* calculator.setRoute(start, finish) called by the page
SetRoute(start, finish, f) ==
    LET S == setRoute(Cur, start, finish, f)
    IN  /\ fnName = "none"
        /\ Apply(S)
        /\ Ran("setRoute")
        /\ clicks' = OtherEvents
        /\ NoHelper

\* calculator.clearRoute() called by the page (variant B only has it)
ClearRoute(f) ==
    /\ fnName = "none"
    /\ variant = "B"
    /\ Apply(clearRoute(Cur, f))
    /\ Ran("clearRoute")
    /\ clicks' = OtherEvents
    /\ NoHelper

\* the user drops a placemark at coords: the SDK has moved it, then 'dragend'
\* runs _setupRoute
DragEnd(which, coords) ==
    LET M == IF which = "start" THEN [Cur EXCEPT !.startPoint = coords]
             ELSE [Cur EXCEPT !.finishPoint = coords]
        S == setupRoute(M)
    IN  /\ fnName = "none"
        /\ (IF which = "start" THEN startPoint ELSE finishPoint) # NoPoint
        /\ Apply(S)
        /\ Ran("dragend")
        /\ clicks' = OtherEvents
        /\ NoHelper

\* the provider fulfils request i with a router
RouteSuccess(i, rt, f) ==
    /\ fnName = "none"
    /\ i \in 1..Len(reqs)
    /\ reqs[i].out = "outstanding"
    /\ Apply(routeSuccess(Cur, i, rt, f))
    /\ Ran("success")
    /\ UNCHANGED clicks
    /\ NoHelper

\* the provider rejects request i
RouteFailure(i, f) ==
    /\ fnName = "none"
    /\ i \in 1..Len(reqs)
    /\ reqs[i].out = "outstanding"
    /\ Apply(routeFailure(Cur, i, f))
    /\ Ran("failure")
    /\ UNCHANGED clicks
    /\ NoHelper

Whichs == {"start", "finish"}

\* The SDK calls of each handler.
PlacemarkFaults == {"newStart", "newFinish", "addStart", "addFinish"}
ClearFaults == {"removeRoute"}
SuccessFaults == {"removeRoute", "styleRoute", "addRoute", "setStartBody",
                  "setFinishBody", "openBalloon", "fitBounds"}
FailureFaults == {"setFinishBody", "openBalloon"}
Pick(FS, calls) == {NoFault} \cup (FS \cap calls)

\* One handler runs. FS: the SDK calls that may throw.
Step(FS) ==
    \/ \E pos \in Coords, f \in Pick(FS, PlacemarkFaults) :
            Click(pos, f) /\ Len(reqs') <= MaxReqs
    \/ \E w \in Whichs, c \in Coords, bc \in Contents \cup {NoContent},
          f \in Pick(FS, PlacemarkFaults) :
            SetPoint(w, c, bc, f) /\ Len(reqs') <= MaxReqs
    \/ \E s \in Coords, e \in Coords, f \in Pick(FS, PlacemarkFaults) :
            SetRoute(s, e, f) /\ Len(reqs') <= MaxReqs
    \/ \E f \in Pick(FS, ClearFaults) : ClearRoute(f)
    \/ \E w \in Whichs, c \in Coords : DragEnd(w, c) /\ Len(reqs') <= MaxReqs
    \/ \E i \in 1..MaxReqs, rt \in Routers, f \in Pick(FS, SuccessFaults) :
            RouteSuccess(i, rt, f)
    \/ \E i \in 1..MaxReqs, f \in Pick(FS, FailureFaults) : RouteFailure(i, f)

\* The SDK never throws.
Next == Step({})
Spec == Init /\ [][Next]_vars

\* The provider answers request i, one way or the other.
Answer(i) ==
    \/ \E rt \in Routers : RouteSuccess(i, rt, NoFault)
    \/ RouteFailure(i, NoFault)

\* The SDK never throws and the provider answers every request it was given.
SpecLive == Init /\ [][Next]_vars /\ \A i \in 1..MaxReqs : WF_vars(Answer(i))

\* Any one SDK call of a handler may throw.
NextFault == Step(Faults)
SpecFault == Init /\ [][NextFault]_vars

\* ------------------------------------------------------ helpers called alone
SecInputs == {Num(s) : s \in (0 - MinSecs)..MaxSecs} \cup {Null, NaN}

CallPriceForKm(km) ==
    /\ fnName = "none"
    /\ fnName' = "priceForKm"
    /\ fnArg' = Num(km)
    /\ fnRes' = NumRes(priceForKm(variant, km))
    /\ UNCHANGED <<variant, calcVars, last, clicks>>

CallFmtSeconds(sec) ==
    /\ fnName = "none"
    /\ fnName' = "fmtSeconds"
    /\ fnArg' = sec
    /\ fnRes' = fmtSeconds(sec)
    /\ UNCHANGED <<variant, calcVars, last, clicks>>

\* What a time method of a router may be or do when getDurationSeconds probes it.
TimeSources ==
    {NoSrc, [t |-> "throws", v |-> 0], Num(60), Num(0), Num(0 - 5), NaN,
     [t |-> "nonnum", v |-> 0]}
\* What router.properties.get('duration') may be or do.
DurationSources ==
    {NoSrc, [t |-> "throws", v |-> 0], [t |-> "none", v |-> 0],
     [t |-> "value", v |-> 90], [t |-> "valueNaN", v |-> 0],
     [t |-> "duration", v |-> 75], [t |-> "durationNaN", v |-> 0],
     [t |-> "other", v |-> 0]}
RouteLengths == {0, 400, 12345}
DurationRouters ==
    [len : RouteLengths, jams : TimeSources, time : TimeSources, dur : DurationSources]

CallGetDurationSeconds(rt) ==
    /\ fnName = "none"
    /\ fnName' = "getDurationSeconds"
    /\ fnArg' = rt
    /\ fnRes' = getDurationSeconds(rt, rt.len)
    /\ UNCHANGED <<variant, calcVars, last, clicks>>

NextFn ==
    \/ \E km \in 0..MaxKm : CallPriceForKm(km)
    \/ \E sec \in SecInputs : CallFmtSeconds(sec)
    \/ \E rt \in DurationRouters : CallGetDurationSeconds(rt)
SpecFn == Init /\ [][NextFn]_vars

\* ------------------------------------------------------------------ claims
\* request i is live: its deferred is pending and the provider has not answered
Live(rs, i) == rs[i].d = "pending" /\ rs[i].out = "outstanding"
\* request i was superseded and the provider has not answered yet
Stale(rs, i) == rs[i].d = "rejected" /\ rs[i].out = "outstanding"
\* the provider answers request i in this step
Completes(i) == i \in DOMAIN reqs /\ reqs[i].out = "outstanding"
                /\ reqs'[i].out # "outstanding"

\* C1 (as claimed): the completion of a request that a later _setupRoute
\* superseded, by success or by failure and in any order, changes none of the
\* drawn route, the two balloon bodies, the balloon's open state and the panel.
C1_SupersededCompletionDiscarded ==
    [][\A i \in 1..MaxReqs :
          (Completes(i) /\ Stale(reqs, i))
          => UNCHANGED <<route, mapRoutes, startBody, finishBody, finishOpen, panel>>]_vars

\* C2: every deferred that is still pending is the one in the _deferred slot,
\* the slot holds the request issued last, and so at most one issued request
\* is live.
C2_AtMostOneLive ==
    /\ deferred = Len(reqs)
    /\ \A i \in DOMAIN reqs : reqs[i].d = "pending" => i = deferred
    /\ Cardinality({i \in DOMAIN reqs : Live(reqs, i)}) <= 1

\* C2 witness: a superseded request still in flight next to the live one.
C2_Witness ==
    \E i \in DOMAIN reqs, j \in DOMAIN reqs :
        i < j /\ Stale(reqs, i) /\ Live(reqs, j)

\* C3: when the provider fails the current request, the finish balloon body
\* becomes "Can't build route" and the balloon is open, the panel, the drawn
\* route, _router and the start balloon stay as they were, no exception leaves
\* the callback and no request is issued.
C3_FailureOfCurrent ==
    [][\A i \in 1..MaxReqs :
          (Completes(i) /\ reqs[i].d = "pending" /\ reqs'[i].out = "failed")
          => /\ finishBody' = CANT_BUILD /\ finishOpen' = TRUE
             /\ UNCHANGED <<panel, route, mapRoutes, router, startBody>>
             /\ threw' = FALSE
             /\ Len(reqs') = Len(reqs) /\ deferred' = deferred]_vars

\* C3 witness: the current request failed after an earlier one had filled the
\* panel and drawn its route; both are still there.
C3_Witness ==
    /\ last = "failure"
    /\ \E i \in DOMAIN reqs : reqs[i].out = "failed" /\ reqs[i].d = "pending"
    /\ finishBody = CANT_BUILD /\ finishOpen
    /\ panel.cost # "" /\ route # 0 /\ route \in mapRoutes

\* the configuration of the running variant
RatePerKm == IF variant = "A" THEN DELIVERY_TARIF_A ELSE DELIVERY_TARIF_B
MinimumPrice == IF variant = "A" THEN MINIMUM_COST_A ELSE MINIMUM_COST_B

\* this step issued a request, the live one, for the placemarks as they now are
IssuedForPoints ==
    /\ Len(reqs') > Len(reqs)
    /\ Live(reqs', Len(reqs'))
    /\ reqs'[Len(reqs')].start = startPoint'
    /\ reqs'[Len(reqs')].finish = finishPoint'

\* C4: while map clicks are the only events, the first click creates the start
\* placemark where clicked and issues no request, the second creates the finish
\* placemark and issues exactly one request, every later click moves the finish
\* placemark only and issues exactly one request for (start, new finish).
C4_ClickSequence ==
    [][\A pos \in Coords :
          (last' = "click" /\ clicks # OtherEvents /\ Click(pos, NoFault))
          => /\ clicks = 0 =>
                  /\ startPoint = NoPoint /\ startPoint' = pos
                  /\ mapPlacemarks' = [start |-> 1, finish |-> 0]
                  /\ finishPoint' = NoPoint
                  /\ reqs' = reqs /\ reqs = <<>>
             /\ clicks = 1 =>
                  /\ finishPoint = NoPoint /\ finishPoint' = pos
                  /\ mapPlacemarks' = [start |-> 1, finish |-> 1]
                  /\ startPoint' = startPoint
                  /\ Len(reqs') = 1 /\ reqs = <<>>
                  /\ IssuedForPoints
             /\ clicks = 2 =>
                  /\ finishPoint # NoPoint /\ finishPoint' = pos
                  /\ mapPlacemarks' = mapPlacemarks
                  /\ startPoint' = startPoint
                  /\ Len(reqs') = Len(reqs) + 1
                  /\ IssuedForPoints]_vars

\* C4 witness: a third click has been handled; the second and the third each
\* issued a request, and the second click's request is superseded.
C4_Witness ==
    /\ clicks = 2 /\ last = "click" /\ Len(reqs) = 2
    /\ reqs[1].d = "rejected" /\ Live(reqs, 2)

Moves == {"click", "setPoint", "setRoute", "dragend"}

\* C5 (as claimed): every operation that sets or moves a point and leaves both
\* points known issues a new request for the coordinates the placemarks then
\* have, in both variants.
C5_EveryMoveIssues ==
    [][(last' \in Moves /\ startPoint' # NoPoint /\ finishPoint' # NoPoint)
          => IssuedForPoints]_vars

\* C5 (amended): map click, setRoute and dragend in both variants, and the
\* public setPoint of variant A, issue that request; the public setPoint of
\* variant B sets the point and issues no request.
C5_MoveIssuesExceptSetPointB ==
    [][(last' \in Moves /\ startPoint' # NoPoint /\ finishPoint' # NoPoint)
          => IF variant = "B" /\ last' = "setPoint" THEN reqs' = reqs
             ELSE IssuedForPoints]_vars

\* C5 witness: a drag of a placemark to another position was followed by a
\* request for the new pair, an earlier request being superseded.
C5_Witness ==
    /\ last = "dragend" /\ Len(reqs) >= 2
    /\ reqs[Len(reqs)].start = startPoint /\ reqs[Len(reqs)].finish = finishPoint
    /\ Live(reqs, Len(reqs))

\* C6: for every whole-kilometre distance d the price is max(d * ratePerKm,
\* minimumPrice): never below the minimum, and d * ratePerKm exactly when
\* d >= minimumPrice / ratePerKm.
C6_PriceIsMax ==
    fnName = "priceForKm" =>
        LET d == fnArg.v
        IN  /\ fnRes.t = "num"
            /\ fnRes.v = (IF d * RatePerKm >= MinimumPrice THEN d * RatePerKm
                          ELSE MinimumPrice)
            /\ fnRes.v >= MinimumPrice
            /\ (fnRes.v = d * RatePerKm) <=> (d * RatePerKm >= MinimumPrice)

\* C6 witness: a distance whose price is above the minimum.
C6_Witness ==
    fnName = "priceForKm" /\ fnRes.v = fnArg.v * RatePerKm /\ fnRes.v > MinimumPrice

\* C7: when the live request succeeds with a route of L metres (the length of
\* the router the callback stores in _router), the cost slot
\* of the panel and both balloons carry the price of the whole number of
\* kilometres nearest to L / 1000 (halves up); 12345 metres are 12 km.
C7_PriceOfRoundedKm ==
    [][\A i \in 1..MaxReqs :
          (Completes(i) /\ Live(reqs, i) /\ reqs'[i].out = "ok")
          => \E km \in 0..(router'.len \div 1000 + 1) :
                /\ 1000 * km - 500 <= router'.len /\ router'.len < 1000 * km + 500
                /\ router'.len = 12345 => km = 12
                /\ LET p == IF km * RatePerKm >= MinimumPrice THEN km * RatePerKm
                            ELSE MinimumPrice
                       msg == message(variant, distanceText(router'.len), p)
                   IN  /\ panel'.cost = priceText(variant, p) \o LARI
                       /\ startBody' = reqs[i].startBalloon \o msg
                       /\ finishBody' = reqs[i].finishBalloon \o msg]_vars

\* C7 witness: variant A has shown the price of 12 km, 9.60, for 12345 metres.
C7_Witness ==
    /\ last = "success" /\ variant = "A" /\ router.len = 12345
    /\ panel.cost = "9.60 L"
    /\ \E i \in DOMAIN reqs : reqs[i].d = "resolved"

\* C8: fmtSeconds of an integer s is, with s' = max(0, s) = 3600 h + 60 m + r
\* and m, r in 0..59, "<h> h <m> min" when h >= 1 and "<m> min" when h = 0;
\* of null or NaN it is null. 0 gives "0 min", 3661 "1 h 1 min", -5 "0 min".
C8_FmtSeconds ==
    fnName = "fmtSeconds" =>
        IF fnArg.t # "num" THEN fnRes = NullRes
        ELSE LET s == IF fnArg.v < 0 THEN 0 ELSE fnArg.v
             IN  /\ \E h \in 0..(MaxSecs \div 3600 + 1), m \in 0..59 :
                       /\ s - 3600 * h - 60 * m \in 0..59
                       /\ fnRes = Str(IF h >= 1
                                      THEN ToString(h) \o " h " \o ToString(m) \o " min"
                                      ELSE ToString(m) \o " min")
                 /\ fnArg.v = 0 => fnRes.s = "0 min"
                 /\ fnArg.v = 3661 => fnRes.s = "1 h 1 min"
                 /\ fnArg.v = 0 - 5 => fnRes.s = "0 min"

\* C8 witness: 3661 seconds were formatted.
C8_Witness == fnName = "fmtSeconds" /\ fnArg = Num(3661) /\ fnRes.s = "1 h 1 min"

\* C9 (as claimed): whichever single SDK call throws while a point or a
\* successful route is handled, no exception leaves the handler, and after a
\* successful live route the panel shows that route's distance, time and price.
C9_SdkFailureSwallowed ==
    [][/\ threw' = FALSE
       /\ \A i \in 1..MaxReqs, rt \in Routers, f \in Pick(Faults, SuccessFaults) :
             (i \in DOMAIN reqs /\ Live(reqs, i) /\ RouteSuccess(i, rt, f))
             => panel' = updatePanel(variant, distanceText(rt.len),
                                     getDurationSeconds(rt, rt.len),
                                     priceForKm(variant, kmRoundedOf(rt.len)))]_vars

\* C10: after setRoute(s, e) the start placemark is at s, the finish placemark
\* at e, the one live request is the last one issued, it is for (s, e), and
\* every other request the call issued is rejected.
C10_SetRoute ==
    [][\A s \in Coords, e \in Coords :
          (last' = "setRoute" /\ SetRoute(s, e, NoFault))
          => /\ startPoint' = s /\ finishPoint' = e
             /\ Len(reqs') > Len(reqs)
             /\ {i \in DOMAIN reqs' : Live(reqs', i)} = {Len(reqs')}
             /\ reqs'[Len(reqs')].start = s /\ reqs'[Len(reqs')].finish = e
             /\ \A j \in (Len(reqs) + 1)..(Len(reqs') - 1) : reqs'[j].d = "rejected"
             /\ \A j \in 1..Len(reqs) : reqs'[j].d # "pending"]_vars

\* C10 witness: setRoute has superseded a request still in flight and left the
\* live one for the two placemarks.
C10_Witness ==
    /\ last = "setRoute" /\ Len(reqs) = 2
    /\ Stale(reqs, 1) /\ Live(reqs, 2)
    /\ reqs[2].start = startPoint /\ reqs[2].finish = finishPoint

\* C11: each role has at most one placemark, on the map exactly when the
\* calculator holds it, so the map has at most two; a placemark is added only
\* for a role that had none, and one that exists is never removed or reset.
C11_OnePlacemarkPerRole ==
    /\ [](/\ mapPlacemarks.start = (IF startPoint = NoPoint THEN 0 ELSE 1)
          /\ mapPlacemarks.finish = (IF finishPoint = NoPoint THEN 0 ELSE 1)
          /\ mapPlacemarks.start + mapPlacemarks.finish <= 2)
    /\ [][/\ mapPlacemarks'.start > mapPlacemarks.start => startPoint = NoPoint
          /\ mapPlacemarks'.finish > mapPlacemarks.finish => finishPoint = NoPoint
          /\ mapPlacemarks'.start >= mapPlacemarks.start
          /\ mapPlacemarks'.finish >= mapPlacemarks.finish
          /\ startPoint # NoPoint => startPoint' # NoPoint
          /\ finishPoint # NoPoint => finishPoint' # NoPoint]_vars

\* C11 witness: both placemarks exist and the start one has just been moved by
\* setPoint, after two requests; the map still has one placemark of each role.
C11_Witness ==
    /\ last = "setPoint" /\ Len(reqs) = 2
    /\ startPoint # NoPoint /\ finishPoint # NoPoint
    /\ reqs[2].start # NoPoint /\ startPoint # reqs[2].start
    /\ mapPlacemarks = [start |-> 1, finish |-> 1]

\* C12: clearRoute() of part_000 takes the current polyline off the map and
\* nulls _route and _router; the placemarks, their coordinates, the stored
\* balloon contents and the deferred (slot and state of every request) stay as
\* they were; afterwards the map has no route polyline.
C12_ClearRoute ==
    [][(last' = "clearRoute" /\ ClearRoute(NoFault))
          => /\ route' = 0 /\ router' = NoRouter /\ mapRoutes' = {}
             /\ UNCHANGED <<startPoint, finishPoint, mapPlacemarks,
                            startContent, finishContent, deferred, reqs>>]_vars

\* C12 witness: clearRoute has just run on a calculator that had drawn a route
\* (the map was fitted to it) between two placemarks; route and router are gone.
C12_Witness ==
    /\ last = "clearRoute" /\ bounds # 0
    /\ route = 0 /\ router = NoRouter /\ mapRoutes = {}
    /\ mapPlacemarks = [start |-> 1, finish |-> 1]

\* C13: the success of a request that a later _setupRoute has rejected returns
\* before any effect: _route, _router, the objects on the map, both balloon
\* bodies, the panel and the map bounds are unchanged, and no deferred (the
\* current one included) is resolved or rejected by it.
C13_StaleSuccessDiscarded ==
    [][\A i \in 1..MaxReqs :
          (Completes(i) /\ Stale(reqs, i) /\ reqs'[i].out = "ok")
             => /\ UNCHANGED <<route, router, mapRoutes, mapPlacemarks,
                               startBody, finishBody, finishOpen, panel,
                               bounds, deferred>>
                /\ \A j \in DOMAIN reqs : reqs'[j].d = reqs[j].d]_vars

\* C13 witness: the superseded request 1 has just succeeded while request 2,
\* the current one, is still pending and nothing has been drawn.
C13_Witness ==
    /\ last = "success" /\ Len(reqs) = 2 /\ deferred = 2
    /\ reqs[1].d = "rejected" /\ reqs[1].out = "ok"
    /\ Live(reqs, 2)
    /\ route = 0 /\ router = NoRouter /\ mapRoutes = {} /\ bounds = 0

\* A time method's value is usable: it is a number and not negative.
UsableTime(src) == src.t = "num" /\ src.v >= 0
\* The 'duration' property is usable: it has a number in .value or .duration.
UsableDuration(src) == src.t \in {"value", "valueNaN", "duration", "durationNaN"}

\* C14 (as claimed): getDurationSeconds returns the value of the earliest
\* usable source in the order getJamsTime, getTime, 'duration' property,
\* length at 40 km/h; a source that is absent, throws or is not usable is
\* skipped and the next one is tried.
C14_EarliestUsableSource ==
    fnName = "getDurationSeconds"
    => fnRes = (IF UsableTime(fnArg.jams) THEN fnArg.jams
                ELSE IF UsableTime(fnArg.time) THEN fnArg.time
                ELSE IF UsableDuration(fnArg.dur) THEN propertiesDuration(fnArg)
                ELSE Num(RoundDiv(fnArg.len * 3600, 1000 * avgKmh)))

\* C15 (as claimed): once the provider has completed a request its deferred is
\* no longer pending: resolved after the success of the live request, rejected
\* after a provider failure or after being superseded.
C15_NoPendingAfterCompletion ==
    \A i \in DOMAIN reqs :
        /\ reqs[i].out # "outstanding" => reqs[i].d # "pending"
        /\ reqs[i].out = "failed" => reqs[i].d = "rejected"

\* C16: the map holds at most one route polyline and it is the one _route
\* refers to (none when _route is null): no polyline of an earlier request
\* stays on the map next to a newer one.
C16_OnlyCurrentRouteOnMap ==
    /\ mapRoutes = (IF route = 0 THEN {} ELSE {route})
    /\ Cardinality(mapRoutes) <= 1

\* C16 witness: request 1 was drawn, then request 2 succeeded live; only the
\* polyline of request 2 is on the map.
C16_Witness ==
    /\ Len(reqs) = 2 /\ reqs[1].d = "resolved" /\ reqs[2].d = "resolved"
    /\ route = 2 /\ mapRoutes = {2}

\* The UI shows the result of request i: its deferred is resolved, _router is
\* a router of the provider, the polyline on the map is the one of request i,
\* and the panel and both balloons carry that router's distance and price.
Shown(i) ==
    /\ i \in DOMAIN reqs /\ reqs[i].d = "resolved"
    /\ route = i /\ mapRoutes = {i} /\ router \in Routers
    /\ LET st == statsOf(variant, router)
           msg == message(variant, st.distanceText, st.price)
       IN  /\ panel = updatePanel(variant, st.distanceText, st.seconds, st.price)
           /\ \E c \in Contents \cup {""} : startBody = c \o msg
           /\ \E c \in Contents \cup {""} : finishBody = c \o msg

\* C17 (as claimed): the provider answers every request; if request i stays
\* the most recent one and succeeds, and no user event follows its completion,
\* then from some point on the UI shows the result of request i, however many
\* earlier requests were superseded and in whatever order they complete.
C17_LatestResultShown ==
    \A i \in 1..MaxReqs :
        ( /\ <>[](Len(reqs) = i /\ reqs[i].out = "ok")
          /\ []((Len(reqs) >= i /\ reqs[i].out # "outstanding")
                   => last \in {"success", "failure"}) )
        => <>[]Shown(i)

\* the distance/cost message of the route that _router holds after the step
RouteMessage ==
    LET st == statsOf(variant, router')
    IN  message(variant, st.distanceText, st.price)

\* C18 (as claimed): after every successful live completion the start balloon
\* body is the start's custom content followed by the message of that route,
\* and the finish balloon body the finish's custom content followed by the
\* same message.
C18_BodyIsContentThenMessage ==
    [][\A i \in 1..MaxReqs :
          (Completes(i) /\ Live(reqs, i) /\ reqs'[i].out = "ok")
             => /\ startBody' = startContent' \o RouteMessage
                /\ finishBody' = finishContent' \o RouteMessage]_vars

\* C18 (amended): after every successful live completion each balloon body is
\* the custom content its role had when the request was issued, followed by
\* the message of that route, and nothing else: no text of an earlier
\* computation and no "Can't build route" of an earlier failure remains.
C18_BodyIsCapturedContentThenMessage ==
    [][\A i \in 1..MaxReqs :
          (Completes(i) /\ Live(reqs, i) /\ reqs'[i].out = "ok")
             => /\ startBody' = reqs[i].startBalloon \o RouteMessage
                /\ finishBody' = reqs[i].finishBalloon \o RouteMessage]_vars

\* C18 witness: request 1 failed and left "Can't build route", then request 2
\* has just succeeded live; the finish balloon carries only its content and the
\* message of the new route.
C18_Witness ==
    /\ last = "success" /\ Len(reqs) = 2
    /\ reqs[1].out = "failed" /\ reqs[2].d = "resolved" /\ router \in Routers
    /\ LET st == statsOf(variant, router)
       IN  finishBody = finishContent \o message(variant, st.distanceText, st.price)

====
